---- MODULE Spec2Model ----
(***************************************************************************)
(* Model of the trading agent's control loop (backend/src/agent.py), the   *)
(* agent control endpoints (backend/src/api.py) and the shared agent state *)
(* (backend/src/globals.py).                                               *)
(*                                                                         *)
(* Execution model.  Everything runs on one asyncio event loop, so a       *)
(* coroutine runs without interruption from one `await` to the next.  One  *)
(* action of this module is one such segment: the code from the await a    *)
(* coroutine is suspended at up to the next await (or its return).  The    *)
(* pc of a coroutine names the await it is suspended at.  Consecutive      *)
(* awaits with nothing between them but pure computation (no call to the   *)
(* broker, no read of shutdown_requested, no write of shared state) are    *)
(* one suspension point, named after the last of them.                     *)
(* The SIGINT/SIGTERM handler runs between any two segments.               *)
(* task.cancel() marks the task; the CancelledError is thrown at the await *)
(* the task is suspended at when the task is next resumed.                 *)
(*                                                                         *)
(* Quantities are counted in half shares (a position of 10 shares is 20),  *)
(* so that fractional positions exist; prices are in cents; the confidence *)
(* threshold is in thousandths (0.015 is 15).                              *)
(***************************************************************************)
EXTENDS Integers, Sequences, FiniteSets, TLC

\* ------------------------------------------------------------------ bounds
MaxTasks == 1          \* Spec: task objects that may exist at once
MaxInFlight == 1       \* Spec: stop_agent handlers that may be in flight at once
RaceTasks == 2         \* SpecRace: task objects that may exist at once
RaceInFlight == 2      \* SpecRace: stop_agent handlers that may be in flight at once
MaxPosition == 20      \* the broker rejects an order taking |position| above this (half shares)
\* the iterations of the three interruptible waits; the code has range(90),
\* range(60) and range(12), the model runs the same loops for fewer iterations
ClosedWaitChecks == 2  \* agent.py 204
CycleSleepChecks == 2  \* agent.py 281
RecoveryChecks == 2    \* agent.py 292

\* ------------------------------------------------------- program constants
None == -1                   \* Python None for a price
retries == 20                \* wait_for_api(retries=20)
BuyLot == 10                 \* 'qty': 10
AddLot == 5                  \* 'qty': 5
LoopThreshold == 15          \* confidence_threshold=0.015, in thousandths
stop_loss_pct == 3           \* stop_loss_pct: float = 0.03, in hundredths

Symbols == {"AAPL"}
Max(a, b) == IF a > b THEN a ELSE b
Slots == 1..Max(MaxInFlight, RaceInFlight)
ApiTasks == 1..Max(MaxTasks, RaceTasks)   \* tasks created by start_agent
MainTask == 0                             \* run_agent_loop called inline by main()
TaskIds == {MainTask} \cup ApiTasks

\* what the price endpoint may answer: last_close and predicted_next_close, in cents
CurrentPrices == {None, 0, 10000}
PredictedPrices == {None, 9500, 9990, 10050, 11000}
\* what the account may hold when the process starts (half shares)
InitialPositions == {0, 20}
InitialPositionsMain == {-20, 0, 1, 20}
\* the avg_entry_price the broker reports for an open position, in cents
avg_entry_price == 10000

VARIABLES
    agent_running,       \* globals.agent_running
    current_ticker,      \* globals.current_ticker ("" is None)
    agent_task,          \* globals.agent_task (0 is None, else a task id)
    shutdown_requested,  \* agent.shutdown_requested
    task,                \* the run_agent_loop coroutines, by task id
    req,                 \* the stop_agent handler coroutines, by slot
    response,            \* the response returned by the step just taken, if any
    position,            \* broker: signed position per symbol, in half shares
    mainc,               \* the main() coroutine of the stand-alone agent
    dec,                 \* a direct call of calculate_trade_decision: its arguments
                         \* and what came of it
    sink                 \* the log stream: whether a client of /ws/agent-logs is connected

vars == <<agent_running, current_ticker, agent_task, shutdown_requested,
          task, req, response, position, mainc, dec, sink>>

\* ------------------------------------------------------- DecisionEngine
Abs(x) == IF x < 0 THEN -x ELSE x

\* int(position_qty): truncation toward zero of a quantity in half shares
IntQty(q) == IF q >= 0 THEN q \div 2 ELSE -((-q) \div 2)

\* variant: a change equal to the fraction counts as exceeding it
PctGreaterOrEqual(cur, pred, num, den) ==
    IF cur > 0 THEN (pred - cur) * den >= num * cur
               ELSE (pred - cur) * den <= num * cur

\* (predicted - current) / current  >  num/den   (current # 0, den > 0)
PctGreater(cur, pred, num, den) ==
    IF cur > 0 THEN (pred - cur) * den > num * cur
               ELSE (pred - cur) * den < num * cur

\* variant: the decrease is compared with a fraction one percent lower
PctLessByOnePercent(cur, pred, num, den) ==
    IF cur > 0 THEN (pred - cur) * den * 100 < (100 * num - den) * cur
               ELSE (pred - cur) * den * 100 > (100 * num - den) * cur

\* (predicted - current) / current  <  num/den   (current # 0, den > 0)
PctLess(cur, pred, num, den) ==
    IF cur > 0 THEN (pred - cur) * den < num * cur
               ELSE (pred - cur) * den > num * cur

Decision(a, q, why) == [action |-> a, qty |-> q, reason |-> why]
NoDecision == Decision("", 0, "")

\* variant: only the current price is tested for None
MissingCurrentOnly(cur, pred) == cur = None

\* agent.py 117: current_price is None or predicted_price is None
MissingPrice(cur, pred) == cur = None \/ pred = None

\* variant: the sign of the half threshold is lost
SellBelowHalfThreshold(cur, pred, thr) == PctLess(cur, pred, thr, 2000)

\* agent.py 134: price_change_pct < -confidence_threshold/2
SellAggressively(cur, pred, thr) == PctLess(cur, pred, -thr, 2000)

\* agent.py 142: price_change_pct < 0
AnyFall(cur, pred) == PctLess(cur, pred, 0, 1)

\* variant: the lot is added as soon as the rise exceeds the threshold itself
StrongRiseAtThreshold(cur, pred, thr) == PctGreater(cur, pred, thr, 1000)

\* agent.py 150: price_change_pct > confidence_threshold * 2
StrongRise(cur, pred, thr) == PctGreater(cur, pred, 2 * thr, 1000)

\* calculate_trade_decision, threshold thr in thousandths; current # 0
\* (the division by current is made before the rules and is modelled where it is called)
calculate_trade_decision(cur, pred, position_qty, thr) ==
    IF MissingPrice(cur, pred) THEN Decision("HOLD", 0, "Missing price data")
    ELSE IF PctGreater(cur, pred, thr, 1000) /\ position_qty = 0
        THEN Decision("BUY", BuyLot, "increase, no current position")
    ELSE IF SellAggressively(cur, pred, thr) /\ position_qty > 0
        THEN Decision("SELL", Abs(IntQty(position_qty)), "decrease, closing position")
    ELSE IF AnyFall(cur, pred) /\ position_qty > 0
        THEN Decision("SELL", Abs(IntQty(position_qty)),
                      "Any downward prediction, protecting position")
    ELSE IF StrongRise(cur, pred, thr) /\ position_qty > 0
        THEN Decision("BUY", AddLot, "Strong upward prediction, adding to position")
    ELSE Decision("HOLD", 0, "below threshold or position already optimal")

\* ------------------------------------------------------- coroutine state
\* pc, i, ticker, position_qty, current_price and decision are the coroutine's
\* position and locals (a local is kept only up to its last read, and current_price
\* is None also while it has no value);
\* cancel is the pending CancelledError of task.cancel(); protects, stopCalls, stops,
\* cycleSubmits and cycleTrades count what the run has done: calls of
\* setup_protective_orders_on_shutdown, submit_order calls it made, stop orders the
\* broker accepted, and the submit_order calls of place_order and the market orders
\* the broker accepted in the current cycle; stop_request is the last
\* StopOrderRequest submitted; ran says that the while loop has begun a cycle;
\* undelivered says that a line the cycle broadcast reached no client; caught is the
\* await at which the CancelledError being handled was thrown
NoOrder == [side |-> "", qty |-> 0, stop_price |-> 0, time_in_force |-> ""]

NoTask == [pc |-> "none", i |-> 0, cancel |-> FALSE, ticker |-> "",
           position_qty |-> 0, current_price |-> None, decision |-> NoDecision,
           protects |-> 0, stopCalls |-> 0, stops |-> 0, stop_request |-> NoOrder,
           cycleSubmits |-> 0, cycleTrades |-> 0, ran |-> FALSE, undelivered |-> FALSE,
           caught |-> ""]

\* ticker is stopped_ticker, task the task the handler cancelled and awaits
IdleReq == [pc |-> "idle", ticker |-> "", task |-> 0]

NoResponse == [kind |-> "", status |-> "", message |-> "", ticker |-> "",
               running |-> FALSE, task_id |-> 0]

\* i is the loop variable of wait_for_api, attempts the requests it has sent, ok its
\* return value
MainOff == [pc |-> "off", i |-> 0, attempts |-> 0, ok |-> FALSE]

\* awaits of run_agent_loop inside its try block (agent.py 196-284)
TryPcs == {"status_bcast", "closed_bcast", "closed_sleep", "open_bcast", "price_get",
           "noprice_sleep", "decision_bcast", "brk_bcast", "exec_bcast",
           "cycle_done_bcast", "cycle_sleep"}

\* awaits of the shutdown sequence (agent.py 298-301 and 23-70)
ShutdownPcs == {"protect_bcast", "protect_pos_bcast", "sd_complete_bcast"}

\* awaits of the while loop: the try block and the except Exception handler
CyclePcs == TryPcs \cup {"err_bcast", "err_sleep"}

Live(t) == task[t].pc \notin {"none", "done"}
TaskDone(t) == task[t].pc = "done"

\* the coroutine is resumed normally at the await it is suspended at
Resume(t, at) == task[t].pc = at /\ ~task[t].cancel

\* the coroutine has returned or has let an exception out
Finished(tr) == [tr EXCEPT !.pc = "done", !.cancel = FALSE, !.i = 0,
                           !.position_qty = 0, !.current_price = None,
                           !.decision = NoDecision,
                           !.cycleSubmits = 0, !.cycleTrades = 0, !.undelivered = FALSE,
                           !.caught = ""]

\* agent.py 298: the test of the flag after the while loop
ShutdownSequenceDue == shutdown_requested

\* agent.py 298-300 and 31-32: after the while loop; with the flag set
\* setup_protective_orders_on_shutdown is called and runs to its first broadcast
AfterLoop(tr) ==
    IF ShutdownSequenceDue
      THEN [tr EXCEPT !.pc = "protect_bcast", !.i = 0, !.protects = @ + 1,
                      !.position_qty = 0, !.current_price = None,
                      !.decision = NoDecision,
                      !.cycleSubmits = 0, !.cycleTrades = 0,
                      !.undelivered = FALSE, !.caught = ""]
      ELSE Finished(tr)

\* agent.py 195-197: the while test, then either the next cycle or the shutdown
\* sequence; a new cycle assigns its locals afresh
WhileTop(tr) ==
    IF shutdown_requested THEN AfterLoop(tr)
    ELSE [tr EXCEPT !.pc = "status_bcast", !.i = 0, !.position_qty = 0,
                    !.current_price = None, !.decision = NoDecision, !.cycleSubmits = 0, !.cycleTrades = 0,
                    !.ran = TRUE, !.undelivered = FALSE]

\* iteration k of `for _ in range(n): if shutdown_requested: break; await sleep`
\* each of the three such loops is followed by the while test
NextIter(tr, k, n, sleepPc) ==
    IF k < n /\ ~shutdown_requested THEN [tr EXCEPT !.pc = sleepPc, !.i = k]
    ELSE WhileTop(tr)

\* variant: the exception is not caught and ends the coroutine
RaisedEscapes(tr) == Finished(tr)

\* agent.py 289-290: an exception of the cycle body is caught and reported; the
\* cycle's locals are not read again
Raised(tr) == [tr EXCEPT !.pc = "err_bcast", !.position_qty = 0,
                         !.current_price = None, !.decision = NoDecision]

\* a task object exists from asyncio.create_task until it has finished and nothing
\* refers to it any more (globals.agent_task, a stop_agent awaiting it, main)
Referenced(t) ==
    \/ agent_task = t
    \/ \E r \in Slots : req[r].pc # "idle" /\ req[r].task = t
    \/ t = MainTask /\ mainc.pc # "off"
Exists(t) == Live(t) \/ (TaskDone(t) /\ Referenced(t))

\* the coroutine of task t moves on; a finished task nothing refers to is freed
SetTask(t, tr) ==
    task' = [task EXCEPT ![t] = IF tr.pc = "done" /\ ~Referenced(t) THEN NoTask ELSE tr]

ApiState == <<agent_running, current_ticker, agent_task>>
NotLoop == <<agent_running, current_ticker, agent_task, req, mainc>>

\* the step returns no response (and is no direct call of calculate_trade_decision)
Quiet == response' = NoResponse /\ dec' = dec /\ sink' = sink

\* ------------------------------------------------------- NotificationSink
\* variant: a broadcast that reaches no client raises in the caller
PublishRaises(tr, next) == IF sink = "connected" THEN next ELSE Raised(tr)

\* `await manager.broadcast(...)` in the cycle body: the coroutine tr goes on to next
\* whether or not the line was delivered
Published(tr, next) ==
    IF sink = "connected" \/ next.pc \notin CyclePcs THEN next
    ELSE [next EXCEPT !.undelivered = TRUE]

\* ------------------------------------------------------- BrokerGateway
\* the broker fills an accepted market order at once
Filled(sym, side, shares) ==
    [position EXCEPT ![sym] = IF side = "BUY" THEN @ + 2 * shares ELSE @ - 2 * shares]

Accepts(sym, side, shares) ==
    shares > 0 /\ Abs(Filled(sym, side, shares)[sym]) <= MaxPosition

\* ------------------------------------------------------- run_agent_loop
\* agent.py 185-190: first run of the coroutine, up to the first broadcast
run_agent_loop_start(t) ==
    /\ Resume(t, "created")
    /\ SetTask(t, [task[t] EXCEPT !.pc = "enter_bcast"])
    /\ Quiet
    /\ UNCHANGED <<NotLoop, shutdown_requested, position>>

\* variant: the first cycle is begun without the test of the flag
run_agent_loop_enter_cycle(t) ==
    /\ Resume(t, "enter_bcast")
    /\ SetTask(t, [task[t] EXCEPT !.pc = "status_bcast", !.ran = TRUE])
    /\ Quiet
    /\ UNCHANGED <<NotLoop, shutdown_requested, position>>

\* agent.py 191-197: clients are made, the while loop is entered
run_agent_loop_enter(t) ==
    /\ Resume(t, "enter_bcast")
    /\ SetTask(t, WhileTop(task[t]))
    /\ Quiet
    /\ UNCHANGED <<NotLoop, shutdown_requested, position>>

\* agent.py 199-210: the market clock
check_market(t) ==
    /\ Resume(t, "status_bcast")
    /\ \E clock \in {"open", "closed", "raise"} :
         SetTask(t, Published(task[t],
                      [task[t] EXCEPT !.pc = CASE clock = "open" -> "open_bcast"
                                              [] clock = "closed" -> "closed_bcast"
                                              [] OTHER -> Raised(task[t]).pc]))
    /\ Quiet
    /\ UNCHANGED <<NotLoop, shutdown_requested, position>>

\* agent.py 204-208: the market-closed wait
closed_wait_begin(t) ==
    /\ Resume(t, "closed_bcast")
    /\ SetTask(t, Published(task[t], NextIter(task[t], 0, ClosedWaitChecks, "closed_sleep")))
    /\ Quiet
    /\ UNCHANGED <<NotLoop, shutdown_requested, position>>

closed_wait_step(t) ==
    /\ Resume(t, "closed_sleep")
    /\ SetTask(t, NextIter(task[t], task[t].i + 1, ClosedWaitChecks, "closed_sleep"))
    /\ Quiet
    /\ UNCHANGED <<NotLoop, shutdown_requested, position>>

\* variant: the decision is made without the price read
read_position_then_decide(t) ==
    /\ Resume(t, "open_bcast")
    /\ SetTask(t, [task[t] EXCEPT !.pc = "decision_bcast",
                                 !.decision = Decision("HOLD", 0, "")])
    /\ Quiet
    /\ UNCHANGED <<NotLoop, shutdown_requested, position>>

\* variant: a failed position read is an exception of the cycle body
PositionReadFailedRaises(tr) == Raised(tr)

\* agent.py 213 and 226-229: get_open_position raises; the failure is reported and
\* position_qty is left at 0.0
PositionReadFailed(tr) == [tr EXCEPT !.pc = "price_get", !.position_qty = 0]

\* agent.py 212-233: the position read, then the price request is sent
read_position(t) ==
    /\ Resume(t, "open_bcast")
    /\ \E ok \in BOOLEAN :
         SetTask(t, Published(task[t],
                      IF ok THEN [task[t] EXCEPT !.pc = "price_get",
                                      !.position_qty = position[task[t].ticker]]
                            ELSE PositionReadFailed(task[t])))
    /\ Quiet
    /\ UNCHANGED <<NotLoop, shutdown_requested, position>>

\* variant: a None current price is not looked for
NoCurrentPriceIgnored(cur) == FALSE

\* agent.py 240: if current_price is None
NoCurrentPrice(cur) == cur = None

\* agent.py 233-256 and 117-163: the price response and the decision.  The request
\* fails, the status is an error, the body is malformed or predicted_next_close is
\* missing: an exception.  last_close is None: the delay.  predicted_next_close is
\* None: f"{predicted_price:.2f}" raises.  last_close is 0: the division raises.
receive_price(t) ==
    /\ Resume(t, "price_get")
    /\ \/ SetTask(t, Raised(task[t]))
       \/ \E cur \in CurrentPrices, pred \in PredictedPrices :
            SetTask(t, Published(task[t],
                       IF NoCurrentPrice(cur)
                         THEN [task[t] EXCEPT !.pc = "noprice_sleep", !.position_qty = 0,
                                              !.current_price = cur]
                       ELSE IF pred = None \/ cur = 0
                         THEN Raised(task[t])
                       ELSE [task[t] EXCEPT !.pc = "decision_bcast",
                                !.position_qty = 0, !.current_price = cur,
                                !.decision = calculate_trade_decision(cur, pred,
                                                 task[t].position_qty, LoopThreshold)]))
    /\ Quiet
    /\ UNCHANGED <<NotLoop, shutdown_requested, position>>

\* agent.py 242-243: after the delay for a missing current price
noprice_continue(t) ==
    /\ Resume(t, "noprice_sleep")
    /\ SetTask(t, WhileTop(task[t]))
    /\ Quiet
    /\ UNCHANGED <<NotLoop, shutdown_requested, position>>

\* variant: the flag is not looked at before the orders
ShutdownNotLookedAt == FALSE

\* agent.py 259: the check for shutdown before executing trades
ShutdownSeenBeforeTrade == shutdown_requested

\* variant: the quantity of the decision is not tested
TradeableWhateverQty(d) == d.action \in {"BUY", "SELL"}

\* agent.py 264 and 270: decision['action'] is BUY or SELL and decision['qty'] > 0
Tradeable(d) == d.action \in {"BUY", "SELL"} /\ d.qty > 0

\* agent.py 258-279: after the decision; the branch without an order leaves the
\* decision as it is
after_decision(t) ==
    /\ Resume(t, "decision_bcast")
    /\ SetTask(t, Published(task[t],
                  IF ShutdownSeenBeforeTrade
                    THEN [task[t] EXCEPT !.pc = "brk_bcast", !.current_price = None]
                  ELSE IF Tradeable(task[t].decision)
                    THEN [task[t] EXCEPT !.pc = "exec_bcast", !.current_price = None]
                  ELSE [task[t] EXCEPT !.pc = "cycle_done_bcast", !.current_price = None]))
    /\ Quiet
    /\ UNCHANGED <<NotLoop, shutdown_requested, position>>

\* variant: a failed submission is not caught by place_order
SubmissionFailedRaises(tr) ==
    [tr EXCEPT !.pc = "err_bcast", !.decision = NoDecision, !.cycleSubmits = @ + 1]

\* agent.py 86 and 89-91: submit_order raises; place_order reports it and returns None
SubmissionFailed(tr) ==
    [tr EXCEPT !.pc = "cycle_done_bcast", !.decision = NoDecision, !.cycleSubmits = @ + 1]

\* agent.py 266-279 and 82-91: place_order; a failed submission is caught and
\* reported, and the cycle goes on to its sleep
place_order(t) ==
    /\ Resume(t, "exec_bcast")
    /\ LET d == task[t].decision
           sym == task[t].ticker
       IN \/ /\ Accepts(sym, d.action, d.qty)
             /\ position' = Filled(sym, d.action, d.qty)
             /\ SetTask(t, Published(task[t],
                            [task[t] EXCEPT !.pc = "cycle_done_bcast",
                                            !.decision = NoDecision,
                                            !.cycleSubmits = @ + 1,
                                            !.cycleTrades = @ + 1]))
          \/ /\ position' = position
             /\ SetTask(t, Published(task[t], SubmissionFailed(task[t])))
    /\ Quiet
    /\ UNCHANGED <<NotLoop, shutdown_requested>>

\* agent.py 281-284: the inter-cycle sleep
cycle_sleep_begin(t) ==
    /\ Resume(t, "cycle_done_bcast")
    /\ SetTask(t, Published(task[t],
                  NextIter([task[t] EXCEPT !.decision = NoDecision], 0,
                           CycleSleepChecks, "cycle_sleep")))
    /\ Quiet
    /\ UNCHANGED <<NotLoop, shutdown_requested, position>>

cycle_sleep_step(t) ==
    /\ Resume(t, "cycle_sleep")
    /\ SetTask(t, NextIter(task[t], task[t].i + 1, CycleSleepChecks, "cycle_sleep"))
    /\ Quiet
    /\ UNCHANGED <<NotLoop, shutdown_requested, position>>

\* agent.py 260-261: break out of the loop
break_for_shutdown(t) ==
    /\ Resume(t, "brk_bcast")
    /\ SetTask(t, AfterLoop(task[t]))
    /\ Quiet
    /\ UNCHANGED <<NotLoop, shutdown_requested, position>>

\* agent.py 287-288: after "Agent has been stopped."
cancelled_break(t) ==
    /\ Resume(t, "cancelled_bcast")
    /\ SetTask(t, AfterLoop(task[t]))
    /\ Quiet
    /\ UNCHANGED <<NotLoop, shutdown_requested, position>>

\* agent.py 289-295: the error-recovery sleep
recovery_begin(t) ==
    /\ Resume(t, "err_bcast")
    /\ SetTask(t, NextIter(task[t], 0, RecoveryChecks, "err_sleep"))
    /\ Quiet
    /\ UNCHANGED <<NotLoop, shutdown_requested, position>>

recovery_step(t) ==
    /\ Resume(t, "err_sleep")
    /\ SetTask(t, NextIter(task[t], task[t].i + 1, RecoveryChecks, "err_sleep"))
    /\ Quiet
    /\ UNCHANGED <<NotLoop, shutdown_requested, position>>

\* agent.py 50 and 23: avg_entry_price * (1 - stop_loss_pct)
StopLossPrice(entry, pct) == (entry * (100 - pct)) \div 100

\* agent.py 56-62: the StopOrderRequest for qty half shares
StopOrderRequest(qty) ==
    [side |-> "SELL", qty |-> IntQty(qty),
     stop_price |-> StopLossPrice(avg_entry_price, stop_loss_pct),
     time_in_force |-> "GTC"]

\* variant: the protective step asks for an order whatever the position is
AlwaysShares(q) == TRUE

\* agent.py 37 and 41-45: `if not position` and `if qty == 0`
HasShares(q) == q # 0

\* variant: a failure of the protective step starts the step again
ProtectFailedRetries(tr) == [tr EXCEPT !.pc = "protect_bcast"]

\* agent.py 69-70: an exception of the protective step is caught and reported, and
\* the function returns
ProtectFailed(tr) == [tr EXCEPT !.pc = "sd_complete_bcast", !.position_qty = 0]

\* agent.py 34-53 and 69-70: the position lookup of the protective step
protect_lookup(t) ==
    /\ Resume(t, "protect_bcast")
    /\ \/ SetTask(t, ProtectFailed(task[t]))
       \/ SetTask(t, IF HasShares(position[task[t].ticker])
                      THEN [task[t] EXCEPT !.pc = "protect_pos_bcast",
                               !.position_qty = Abs(position[task[t].ticker])]
                      ELSE [task[t] EXCEPT !.pc = "sd_complete_bcast"])
    /\ Quiet
    /\ UNCHANGED <<NotLoop, shutdown_requested, position>>

\* the broker takes a stop order for at least one share
AcceptsStop(order) == order.qty > 0

\* agent.py 56-70: the stop order is submitted; a failure is caught and reported
protect_submit(t) ==
    /\ Resume(t, "protect_pos_bcast")
    /\ LET order == StopOrderRequest(task[t].position_qty)
           called == [task[t] EXCEPT !.stopCalls = @ + 1, !.stop_request = order]
       IN \/ /\ AcceptsStop(order)
             /\ SetTask(t, [called EXCEPT !.pc = "sd_complete_bcast",
                                          !.position_qty = 0, !.stops = @ + 1])
          \/ SetTask(t, ProtectFailed(called))
    /\ Quiet
    /\ UNCHANGED <<NotLoop, shutdown_requested, position>>

\* agent.py 301: the coroutine returns
shutdown_complete(t) ==
    /\ Resume(t, "sd_complete_bcast")
    /\ SetTask(t, Finished(task[t]))
    /\ Quiet
    /\ UNCHANGED <<NotLoop, shutdown_requested, position>>

\* the seconds of one asyncio.sleep of each wait
ClosedWaitSeconds == 10    \* agent.py 208
NoPriceSeconds == 60       \* agent.py 242
CycleSleepSeconds == 5     \* agent.py 284
RecoverySeconds == 5       \* agent.py 295

\* the awaits that are sleeps
SleepPcs == {"closed_sleep", "noprice_sleep", "cycle_sleep", "err_sleep"}

SleepSeconds(at) ==
    CASE at = "closed_sleep" -> ClosedWaitSeconds
      [] at = "noprice_sleep" -> NoPriceSeconds
      [] at = "cycle_sleep" -> CycleSleepSeconds
      [] at = "err_sleep" -> RecoverySeconds

\* the longest step of the waits that test the flag between their steps
FineGrainedSeconds == Max(ClosedWaitSeconds, Max(CycleSleepSeconds, RecoverySeconds))

\* agent.py 286: asyncio.CancelledError is caught only inside the try block
CaughtAt(at) == at \in TryPcs

\* the CancelledError of task.cancel() is thrown at the await the task is suspended at;
\* the handler reads none of the cycle's locals
deliver_cancel(t) ==
    /\ Live(t) /\ task[t].cancel
    /\ SetTask(t, IF CaughtAt(task[t].pc)
                    THEN [task[t] EXCEPT !.pc = "cancelled_bcast", !.cancel = FALSE,
                                         !.caught = task[t].pc, !.i = 0,
                                         !.position_qty = 0, !.current_price = None,
                                         !.decision = NoDecision]
                    ELSE Finished(task[t]))
    /\ Quiet
    /\ UNCHANGED <<NotLoop, shutdown_requested, position>>

\* agent.py 72-76
signal_handler ==
    /\ shutdown_requested' = TRUE
    /\ Quiet
    /\ UNCHANGED <<agent_running, current_ticker, agent_task, task, req,
                   position, mainc>>

\* api.py 216-218: a client of /ws/agent-logs connects
websocket_connect ==
    /\ sink = "disconnected"
    /\ sink' = "connected"
    /\ response' = NoResponse
    /\ UNCHANGED <<ApiState, shutdown_requested, task, req, position, mainc, dec>>

\* api.py 219-223: the client is gone
websocket_disconnect ==
    /\ sink = "connected"
    /\ sink' = "disconnected"
    /\ response' = NoResponse
    /\ UNCHANGED <<ApiState, shutdown_requested, task, req, position, mainc, dec>>

LoopStep(t) ==
    \/ run_agent_loop_enter(t) \/ check_market(t)
    \/ closed_wait_begin(t) \/ closed_wait_step(t)
    \/ read_position(t) \/ receive_price(t) \/ noprice_continue(t)
    \/ after_decision(t) \/ place_order(t)
    \/ cycle_sleep_begin(t) \/ cycle_sleep_step(t)
    \/ break_for_shutdown(t)
    \/ recovery_begin(t) \/ recovery_step(t)
    \/ protect_lookup(t) \/ protect_submit(t)
    \/ shutdown_complete(t)

\* ------------------------------------------------------- command surface
Respond(k, st, msg, tk, run, tid) ==
    /\ response' = [kind |-> k, status |-> st, message |-> msg, ticker |-> tk,
                    running |-> run, task_id |-> tid]
    /\ dec' = dec
    /\ sink' = sink

\* the next task asyncio.create_task makes, among n task objects
CanCreate(n) == \E t \in 1..n : ~Exists(t)
FreshTask(n) == CHOOSE t \in 1..n : ~Exists(t) /\ \A u \in 1..n : u < t => Exists(u)

\* api.py 233: the test start_agent makes of the running flag
StartRejected == agent_running

\* api.py 228-253: start_agent; the state is changed before its first await, and
\* after it the handler only broadcasts and returns
\* variant: a start while running is answered as a success
start_rejection_as_success ==
    /\ Respond("start", "success", "started", current_ticker, FALSE, agent_task)
    /\ UNCHANGED <<ApiState, task>>

\* api.py 233-234: a start while running is answered with an error
start_rejection ==
    /\ Respond("start", "error", "already running", current_ticker, FALSE, 0)
    /\ UNCHANGED <<ApiState, task>>

start_agent(ticker, n) ==
    /\ IF StartRejected
         THEN start_rejection
         ELSE /\ CanCreate(n)
              /\ task' = [task EXCEPT ![FreshTask(n)] =
                             [NoTask EXCEPT !.pc = "created", !.ticker = ticker]]
              /\ agent_task' = FreshTask(n)
              /\ agent_running' = TRUE
              /\ current_ticker' = ticker
              /\ Respond("start", "success", "started", ticker, FALSE, FreshTask(n))
    /\ UNCHANGED <<req, shutdown_requested, position, mainc>>

\* variant: stop_agent does not test the running flag
StopNeverRejected == FALSE

\* api.py 259: the test stop_agent makes of the running flag
StopRejected == ~agent_running

\* api.py 256-270: stop_agent up to its first await
stop_agent(r) ==
    /\ req[r].pc = "idle"
    /\ IF StopRejected
         THEN /\ Respond("stop", "error", "No agent is currently running", "", FALSE, 0)
              /\ UNCHANGED <<task, req>>
         ELSE /\ task' = IF agent_task # 0 /\ Live(agent_task)
                           THEN [task EXCEPT ![agent_task].cancel = TRUE]
                           ELSE task
              /\ req' = [req EXCEPT ![r] =
                           [pc |-> IF agent_task # 0 /\ Live(agent_task)
                                     THEN "stop_await" ELSE "stop_bcast",
                            ticker |-> current_ticker, task |-> agent_task]]
              /\ Quiet
    /\ UNCHANGED <<ApiState, shutdown_requested, position, mainc>>

\* api.py 268-274: the awaited task has finished
stop_agent_resume(r) ==
    /\ req[r].pc = "stop_await"
    /\ TaskDone(req[r].task)
    /\ req' = [req EXCEPT ![r].pc = "stop_bcast"]
    /\ Quiet
    /\ UNCHANGED <<ApiState, shutdown_requested, task, position, mainc>>

\* api.py 276-284: the state is reset and stop_agent returns
stop_agent_return(r) ==
    /\ req[r].pc = "stop_bcast"
    /\ agent_running' = FALSE
    /\ agent_task' = 0
    /\ current_ticker' = ""
    /\ Respond("stop", "success", "stopped", req[r].ticker, FALSE, req[r].task)
    /\ req' = [req EXCEPT ![r] = IdleReq]
    /\ task' = [t \in TaskIds |->
                 IF TaskDone(t) /\ t # MainTask
                    /\ ~\E q \in Slots \ {r} : req[q].pc # "idle" /\ req[q].task = t
                   THEN NoTask ELSE task[t]]
    /\ UNCHANGED <<shutdown_requested, position, mainc>>

\* api.py 293-300
get_agent_status ==
    /\ Respond("status", "", "", current_ticker, agent_running, agent_task)
    /\ UNCHANGED <<ApiState, shutdown_requested, task, req, position, mainc>>

\* ------------------------------------------------------- main / wait_for_api
\* variant: after the last attempt main goes on as if the API had answered
AttemptThenRun(m, k) ==
    IF k < retries THEN [m EXCEPT !.pc = "api_get", !.i = k, !.attempts = @ + 1]
    ELSE [m EXCEPT !.pc = "avail_bcast", !.i = 0]

\* iteration k of `for i in range(retries)`; after the last one wait_for_api returns
\* False and main broadcasts CRITICAL
Attempt(m, k) ==
    IF k < retries THEN [m EXCEPT !.pc = "api_get", !.i = k, !.attempts = @ + 1]
    ELSE [m EXCEPT !.pc = "critical_bcast", !.i = 0]

\* agent.py 303-308 and 167-168
main_begin ==
    /\ mainc.pc = "start"
    /\ mainc' = [mainc EXCEPT !.pc = "wait_bcast"]
    /\ Quiet
    /\ UNCHANGED <<ApiState, shutdown_requested, task, req, position>>

\* agent.py 169-172: the first attempt
wait_for_api_first ==
    /\ mainc.pc = "wait_bcast"
    /\ mainc' = Attempt(mainc, 0)
    /\ Quiet
    /\ UNCHANGED <<ApiState, shutdown_requested, task, req, position>>

\* agent.py 172-179: the answer to an attempt
wait_for_api_answer ==
    /\ mainc.pc = "api_get"
    /\ \E answer \in {"200", "other", "RequestError"} :
         mainc' = CASE answer = "200" -> [mainc EXCEPT !.pc = "avail_bcast", !.ok = TRUE]
                    [] answer = "other" -> Attempt(mainc, mainc.i + 1)
                    [] OTHER -> [mainc EXCEPT !.pc = "retry_bcast"]
    /\ Quiet
    /\ UNCHANGED <<ApiState, shutdown_requested, task, req, position>>

\* agent.py 179-180
wait_for_api_delay ==
    /\ mainc.pc = "retry_bcast"
    /\ mainc' = [mainc EXCEPT !.pc = "retry_sleep"]
    /\ Quiet
    /\ UNCHANGED <<ApiState, shutdown_requested, task, req, position>>

\* agent.py 180, 169-172: the next attempt after the delay
wait_for_api_retry ==
    /\ mainc.pc = "retry_sleep"
    /\ mainc' = Attempt(mainc, mainc.i + 1)
    /\ Quiet
    /\ UNCHANGED <<ApiState, shutdown_requested, task, req, position>>

\* agent.py 175-176, 308-310 and 187-190: the API is available, the loop is called
main_run_loop ==
    /\ mainc.pc = "avail_bcast"
    /\ mainc' = [mainc EXCEPT !.pc = "loop"]
    /\ \E ticker \in Symbols :
         task' = [task EXCEPT ![MainTask] =
                     [NoTask EXCEPT !.pc = "enter_bcast", !.ticker = ticker]]
    /\ Quiet
    /\ UNCHANGED <<ApiState, shutdown_requested, req, position>>

\* agent.py 310: run_agent_loop has returned
main_loop_returned ==
    /\ mainc.pc = "loop"
    /\ TaskDone(MainTask)
    /\ mainc' = [mainc EXCEPT !.pc = "done"]
    /\ Quiet
    /\ UNCHANGED <<ApiState, shutdown_requested, task, req, position>>

\* agent.py 312-313
main_critical ==
    /\ mainc.pc = "critical_bcast"
    /\ mainc' = [mainc EXCEPT !.pc = "done"]
    /\ Quiet
    /\ UNCHANGED <<ApiState, shutdown_requested, task, req, position>>

\* ------------------------------------------------------- specifications
InitCommon ==
    /\ agent_running = FALSE
    /\ current_ticker = ""
    /\ agent_task = 0
    /\ shutdown_requested = FALSE
    /\ task = [t \in TaskIds |-> NoTask]
    /\ req = [r \in Slots |-> IdleReq]
    /\ response = NoResponse

\* no direct call of calculate_trade_decision is made
NoCall == [current_price |-> None, predicted_price |-> None, position_qty |-> 0,
           confidence_threshold |-> 0, state |-> "none", result |-> NoDecision,
           previous |-> NoDecision, broadcasts |-> 0, calls |-> 0]

\* the web server process: globals.py 8-10, agent.py 15
Init ==
    /\ InitCommon
    /\ position \in [Symbols -> InitialPositions]
    /\ mainc = MainOff
    /\ dec = NoCall
    /\ sink = "connected"

\* the command surface with n task objects and m stop_agent handlers, and the loops
Server(n, m) ==
    \/ \E ticker \in Symbols : start_agent(ticker, n)
    \/ \E r \in 1..m : \/ stop_agent(r)
                       \/ stop_agent_resume(r)
                       \/ stop_agent_return(r)
    \/ get_agent_status
    \/ \E t \in 1..n : \/ run_agent_loop_start(t)
                       \/ LoopStep(t)
                       \/ deliver_cancel(t)
                       \/ cancelled_break(t)
    \/ signal_handler

Next == Server(MaxTasks, MaxInFlight)

Spec == Init /\ [][Next]_vars

\* the same process with stop requests that overlap
NextRace == Server(RaceTasks, RaceInFlight)

SpecRace == Init /\ [][NextRace]_vars

\* the stand-alone agent process: python agent.py --ticker T
InitMain ==
    /\ InitCommon
    /\ position \in [Symbols -> InitialPositionsMain]
    /\ mainc = [MainOff EXCEPT !.pc = "start"]
    /\ dec = NoCall
    /\ sink = "connected"

NextMain ==
    \/ main_begin \/ wait_for_api_first \/ wait_for_api_answer
    \/ wait_for_api_delay \/ wait_for_api_retry
    \/ main_run_loop \/ main_loop_returned \/ main_critical
    \/ LoopStep(MainTask)
    \/ signal_handler

SpecMain == InitMain /\ [][NextMain]_vars

\* the web server with one loop task and the clients of the log stream coming and going
SinkTask == 1

InitSink ==
    /\ InitCommon
    /\ position \in [Symbols -> InitialPositions]
    /\ mainc = MainOff
    /\ dec = NoCall
    /\ sink = "disconnected"

NextSink ==
    \/ \E ticker \in Symbols : start_agent(ticker, SinkTask)
    \/ run_agent_loop_start(SinkTask)
    \/ LoopStep(SinkTask)
    \/ websocket_connect \/ websocket_disconnect
    \/ signal_handler

SpecSink == InitSink /\ [][NextSink]_vars

\* ------------------------------------------------------- DecisionEngine called directly
\* the arguments a caller may pass: prices in cents, the position in half shares,
\* the threshold in thousandths
DecideCurrent == {None, 0, 10000}
DecidePredicted == {None, 9500, 9990, 10000, 10150, 10151, 10200, 10300, 10301, 11000}
DecidePositions == {-20, 0, 1, 3, 20}
DecideThresholds == {15, 20}
MaxCalls == 2          \* calls made with the same arguments

\* agent.py 120: the division by current_price raises ZeroDivisionError
DivisionRaises(cur, pred) == ~MissingPrice(cur, pred) /\ cur = 0

\* agent.py 122-123: the two broadcasts of a call that gets past the division
Broadcasts(cur, pred) == IF MissingPrice(cur, pred) \/ DivisionRaises(cur, pred) THEN 0 ELSE 2

\* agent.py 104-163: one call of calculate_trade_decision, from its first line to
\* its return or to the exception it lets out
decide_call ==
    /\ dec.state = "ready"
    /\ LET cur == dec.current_price
           pred == dec.predicted_price
       IN dec' = [dec EXCEPT
                    !.state = IF DivisionRaises(cur, pred) THEN "raised" ELSE "returned",
                    !.result = IF DivisionRaises(cur, pred) THEN NoDecision
                               ELSE calculate_trade_decision(cur, pred, dec.position_qty,
                                                             dec.confidence_threshold),
                    !.broadcasts = @ + Broadcasts(cur, pred),
                    !.calls = @ + 1]
    /\ response' = NoResponse
    /\ UNCHANGED <<ApiState, shutdown_requested, task, req, position, mainc, sink>>

\* the caller calls again with the same arguments
decide_again ==
    /\ dec.state = "returned"
    /\ dec.calls < MaxCalls
    /\ dec' = [dec EXCEPT !.state = "ready", !.previous = dec.result,
                          !.result = NoDecision, !.broadcasts = 0]
    /\ response' = NoResponse
    /\ UNCHANGED <<ApiState, shutdown_requested, task, req, position, mainc, sink>>

InitDecide ==
    /\ InitCommon
    /\ position \in [Symbols -> InitialPositions]
    /\ mainc = MainOff
    /\ sink = "connected"
    /\ \E cur \in DecideCurrent, pred \in DecidePredicted,
          q \in DecidePositions, thr \in DecideThresholds :
          dec = [NoCall EXCEPT !.current_price = cur, !.predicted_price = pred,
                               !.position_qty = q, !.confidence_threshold = thr,
                               !.state = "ready"]

\* the calls, in a process whose shutdown flag may be set at any time
NextDecide == decide_call \/ decide_again \/ signal_handler

SpecDecide == InitDecide /\ [][NextDecide]_vars

\* ------------------------------------------------------- properties
LiveTasks == {t \in ApiTasks : Live(t)}

\* task t takes a step of its own coroutine (task.cancel() by stop_agent is not one)
Steps(t) ==
    /\ task[t].pc \notin {"none", "done"}
    /\ task'[t] # task[t]
    /\ task'[t] # [task[t] EXCEPT !.cancel = TRUE]

\* C1: when stop_agent has cancelled and awaited a loop that had begun its cycles,
\* and is about to reset AgentState, that loop run has submitted exactly one
\* protective stop order if the account holds a position in the symbol
C1_StopSubmitsOneProtectiveOrder ==
    \A r \in Slots :
        (/\ req[r].pc = "stop_bcast"
         /\ req[r].task # 0
         /\ task[req[r].task].ran
         /\ position[req[r].ticker] # 0)
        => task[req[r].task].stops = 1

\* C2: at most one loop task is live
C2_AtMostOneLiveTask == Cardinality(LiveTasks) <= 1

\* C3: a start that finds the agent running answers "already running" for the
\* active symbol, creates no task and leaves the agent state as it is; a start
\* that finds it not running succeeds, creates exactly one task and sets the
\* running flag; and the flag is cleared only by a stop that returns, so of the
\* starts made with no stop in between exactly one succeeds
C3_OneStartSucceeds ==
    [][/\ (response'.kind = "start" /\ agent_running) =>
            /\ response'.status = "error"
            /\ response'.message = "already running"
            /\ response'.ticker = current_ticker
            /\ UNCHANGED <<agent_running, current_ticker, agent_task, task>>
       /\ (response'.kind = "start" /\ ~agent_running) =>
            /\ response'.status = "success"
            /\ agent_running'
            /\ agent_task' # 0
            /\ task[agent_task'].pc = "none" /\ task'[agent_task'].pc = "created"
            /\ \A t \in TaskIds : t # agent_task' => task'[t] = task[t]
       /\ (agent_running /\ ~agent_running') =>
            (response'.kind = "stop" /\ response'.status = "success")
      ]_vars

C3_Witness ==
    /\ response.kind = "start" /\ response.status = "error"
    /\ agent_running /\ Cardinality(LiveTasks) = 1

\* C4: while no stop request is being processed, running = TRUE implies that the
\* handle refers to a live loop task, and running = FALSE implies that no loop
\* task is live
C4_StateConsistent ==
    (\A r \in Slots : req[r].pc = "idle") =>
        /\ agent_running => (agent_task # 0 /\ Live(agent_task))
        /\ ~agent_running => LiveTasks = {}

\* C5: a stop that finds the agent not running answers "No agent is currently
\* running", cancels no task, changes no position and leaves the agent state and
\* the other handlers as they are
C5_StopWhenNotRunning ==
    [][\A r \in Slots :
          (stop_agent(r) /\ ~agent_running) =>
             /\ response'.kind = "stop" /\ response'.status = "error"
             /\ response'.message = "No agent is currently running"
             /\ UNCHANGED <<agent_running, current_ticker, agent_task, task,
                            position, req>>
      ]_vars

C5_Witness ==
    /\ response.kind = "stop" /\ response.status = "error"
    /\ ~agent_running /\ agent_task = 0

\* C6: a loop run that had begun its cycles and has terminated has invoked the
\* protective step exactly once
C6_ProtectOnceBeforeTermination ==
    \A t \in ApiTasks : (TaskDone(t) /\ task[t].ran) => task[t].protects = 1

C8_ExceptionsNeverTerminate ==
    [][\A t \in TaskIds :
         /\ (Steps(t) /\ ~task[t].cancel /\ task[t].pc \in {"err_bcast", "err_sleep"}) =>
               task'[t].pc \in {"err_sleep", "status_bcast", "protect_bcast"}
         /\ (Steps(t) /\ task'[t].pc \in {"done", "none"}) =>
               \/ task[t].cancel
               \/ task[t].pc = "cancelled_bcast"
               \/ task[t].pc = "sd_complete_bcast" /\ shutdown_requested
      ]_vars

C8_Witness ==
    \E t \in TaskIds : task[t].pc = "err_sleep" /\ task[t].i = RecoveryChecks - 1

\* C9: wait_for_api sends at most `retries` requests; when none is answered 200,
\* main broadcasts CRITICAL and ends, run_agent_loop is never called and so no
\* order is submitted
C9_StartupFailureIsTerminal ==
    /\ [](/\ mainc.attempts <= retries
          /\ (mainc.pc = "critical_bcast" \/ (mainc.pc = "done" /\ ~mainc.ok)) =>
                (mainc.attempts = retries /\ task[MainTask] = NoTask)
          /\ (task[MainTask] # NoTask) => mainc.ok)
    /\ [][~mainc'.ok => (position' = position /\ task' = task)]_vars

C9_Witness == mainc.pc = "done" /\ ~mainc.ok /\ mainc.attempts = retries

\* C10: once the shutdown flag is set, wait_for_api sends no further request
C10_SignalAbortsStartupRetries ==
    [][shutdown_requested => mainc'.attempts = mainc.attempts]_vars

\* C11: a failure of the protective step (the position lookup or the submission
\* raises) is followed by the end of the shutdown sequence, never by another lookup
\* or submission: a run calls the step at most once and submits at most one stop
\* order; from the end of the sequence the task terminates; and a stop that returns
\* success has reset the agent state to not running
C11_ProtectFailureStillStops ==
    /\ [][/\ \A t \in TaskIds :
               /\ (Steps(t) /\ Resume(t, "protect_bcast")) =>
                     /\ task'[t].pc \in {"protect_pos_bcast", "sd_complete_bcast"}
                     /\ task'[t].protects = task[t].protects
                     /\ task'[t].stopCalls = task[t].stopCalls
               /\ (Steps(t) /\ Resume(t, "protect_pos_bcast")) =>
                     /\ task'[t].pc = "sd_complete_bcast"
                     /\ task'[t].protects = task[t].protects
                     /\ task'[t].stopCalls = task[t].stopCalls + 1
               /\ (Steps(t) /\ task[t].pc = "sd_complete_bcast") =>
                     task'[t].pc \in {"done", "none"}
          /\ (response'.kind = "stop" /\ response'.status = "success") =>
                (~agent_running' /\ agent_task' = 0 /\ current_ticker' = "")
         ]_vars
    /\ [](\A t \in TaskIds : task[t].protects <= 1 /\ task[t].stopCalls <= 1)

\* a stop about to reset the state of an agent whose loop ended after a stop order
\* submission that failed
C11_Witness ==
    \E r \in Slots :
        /\ req[r].pc = "stop_bcast" /\ req[r].task # 0
        /\ TaskDone(req[r].task)
        /\ task[req[r].task].stopCalls = 1 /\ task[req[r].task].stops = 0

\* C12: a cycle calls submit_order at most once: only the step from the "EXECUTING"
\* broadcast submits, it is entered only from the decision of the same cycle, and a
\* new cycle starts with no decision and no submission carried over; whether the
\* submission succeeds or fails, the cycle goes on to the inter-cycle sleep and from
\* there to the next while test, never to the error-recovery path or back to the
\* submission; and the position changes only by such a submission
C12_OneSubmissionPerCycle ==
    /\ [][/\ \A t \in TaskIds :
               /\ (Steps(t) /\ Resume(t, "exec_bcast")) =>
                     /\ task'[t].pc = "cycle_done_bcast"
                     /\ task'[t].cycleSubmits = task[t].cycleSubmits + 1
               /\ (Steps(t) /\ task'[t].cycleSubmits > task[t].cycleSubmits) =>
                     Resume(t, "exec_bcast")
               /\ (Steps(t) /\ task'[t].pc = "exec_bcast") =>
                     /\ Resume(t, "decision_bcast")
                     /\ task'[t].decision = task[t].decision
               /\ (Steps(t) /\ ~task[t].cancel
                     /\ task[t].pc \in {"cycle_done_bcast", "cycle_sleep"}) =>
                     task'[t].pc \in {"cycle_sleep", "status_bcast", "protect_bcast"}
          /\ position' # position =>
                \E t \in TaskIds : Steps(t) /\ Resume(t, "exec_bcast")
         ]_vars
    /\ [](\A t \in TaskIds :
             /\ task[t].cycleSubmits <= 1
             /\ task[t].cycleTrades <= task[t].cycleSubmits
             /\ task[t].pc = "status_bcast" =>
                   (task[t].decision = NoDecision /\ task[t].cycleSubmits = 0))

\* the inter-cycle sleep of a cycle whose one submission failed
C12_Witness ==
    \E t \in TaskIds :
        /\ task[t].pc = "cycle_sleep"
        /\ task[t].cycleSubmits = 1 /\ task[t].cycleTrades = 0

\* C13: within a cycle of a loop the steps follow one another in the order clock
\* query, position read, price read and decision, order submission, sleep: each is
\* entered only from the one before it; and the clock query of the next cycle is
\* entered only from a wait or from the end of the sleep, never from a step before
\* the submission has completed
C13_CycleOrder ==
    [][\A t \in TaskIds : Steps(t) =>
         /\ task'[t].pc = "open_bcast" => Resume(t, "status_bcast")
         /\ task'[t].pc = "price_get" => Resume(t, "open_bcast")
         /\ task'[t].pc = "decision_bcast" => Resume(t, "price_get")
         /\ task'[t].pc = "exec_bcast" => Resume(t, "decision_bcast")
         /\ task'[t].pc = "cycle_done_bcast" =>
               (Resume(t, "exec_bcast") \/ Resume(t, "decision_bcast"))
         /\ task'[t].pc = "cycle_sleep" =>
               (Resume(t, "cycle_done_bcast") \/ Resume(t, "cycle_sleep"))
         /\ task'[t].pc = "status_bcast" =>
               task[t].pc \in {"enter_bcast", "closed_bcast", "closed_sleep",
                               "noprice_sleep", "cycle_done_bcast", "cycle_sleep",
                               "err_bcast", "err_sleep"}
      ]_vars

\* the inter-cycle sleep of a cycle whose order was submitted and filled
C13_Witness ==
    \E t \in TaskIds :
        /\ task[t].pc = "cycle_sleep" /\ task[t].i = CycleSleepChecks - 1
        /\ task[t].cycleSubmits = 1 /\ task[t].cycleTrades = 1

\* C14: when the flag is set while the loop is in one of its waits, the sleep it
\* is in is a fine-grained step (no longer than the steps of the decomposed waits),
\* and when that sleep ends the loop leaves the wait and enters the shutdown
\* sequence
C14_WaitsAreFineGrained ==
    [][\A t \in TaskIds :
         (Steps(t) /\ ~task[t].cancel /\ task[t].pc \in SleepPcs /\ shutdown_requested) =>
            /\ task'[t].pc = "protect_bcast"
            /\ SleepSeconds(task[t].pc) <= FineGrainedSeconds
      ]_vars

\* a direct call of calculate_trade_decision has ended
Called == dec.state \in {"returned", "raised"}
PricesGiven == dec.current_price # None /\ dec.predicted_price # None

\* predicted > current * (1 + threshold)
PredictedAboveThreshold ==
    dec.predicted_price * 1000 > dec.current_price * (1000 + dec.confidence_threshold)

\* C15: for all non-null price pairs with predicted > current*(1+threshold)
\* and position_qty = 0, the call returns BUY with qty 10
C15_BuyOnRise ==
    (Called /\ PricesGiven /\ PredictedAboveThreshold /\ dec.position_qty = 0) =>
        (dec.state = "returned" /\ dec.result.action = "BUY" /\ dec.result.qty = 10)

\* C16: for all non-null price pairs with predicted < current and
\* position_qty > 0, the call returns SELL with qty the integer truncation of the
\* absolute position size
C16_SellOnAnyFall ==
    (Called /\ PricesGiven /\ dec.predicted_price < dec.current_price
        /\ dec.position_qty > 0) =>
        /\ dec.state = "returned" /\ dec.result.action = "SELL"
        /\ dec.result.qty = Abs(dec.position_qty) \div 2

\* a fall of 0.1 %, smaller than half the threshold, with 1.5 shares held
C16_Witness ==
    /\ dec.state = "returned" /\ dec.current_price = 10000
    /\ dec.predicted_price = 9990 /\ dec.position_qty = 3
    /\ dec.result.action = "SELL" /\ dec.result.qty = 1

\* C17: when the current or the predicted price is None the call does not raise and
\* returns HOLD, qty 0, reason "Missing price data", whatever the position and the
\* threshold
C17_HoldOnMissingPrice ==
    (Called /\ ~PricesGiven) =>
        /\ dec.state = "returned"
        /\ dec.result = Decision("HOLD", 0, "Missing price data")

\* the predicted price alone is None, with a position held
C17_Witness ==
    /\ dec.state = "returned" /\ dec.predicted_price = None
    /\ dec.current_price = 10000 /\ dec.position_qty = 20
    /\ dec.result.action = "HOLD"

\* C18: a call publishes nothing to the NotificationSink, and a second call with the
\* same arguments returns the same Decision
C18_DecisionIsPure ==
    /\ dec.broadcasts = 0
    /\ (dec.state = "returned" /\ dec.calls = 2) => dec.result = dec.previous

\* C19: the stop order submitted at shutdown is a SELL at entry * (1 - pct) for a
\* long position and a BUY at entry * (1 + pct) for a short one
C19_StopOrderSideAndPrice ==
    \A t \in TaskIds :
        task[t].stop_request # NoOrder =>
            IF position[task[t].ticker] > 0
              THEN /\ task[t].stop_request.side = "SELL"
                   /\ task[t].stop_request.stop_price =
                         (avg_entry_price * (100 - stop_loss_pct)) \div 100
              ELSE /\ task[t].stop_request.side = "BUY"
                   /\ task[t].stop_request.stop_price =
                         (avg_entry_price * (100 + stop_loss_pct)) \div 100

\* C20: the protective step calls submit_order only in its step after a position
\* lookup that reported a non-zero quantity, there exactly once, with a
\* good-till-cancelled stop order for the integer part of the absolute position
\* size; a lookup that reports no position ends the step with no call; so a run
\* makes at most one call per invocation of the step
C20_OneStopOrderPerInvocation ==
    /\ [][\A t \in TaskIds : Steps(t) =>
            /\ Resume(t, "protect_bcast") =>
                  /\ task'[t].stopCalls = task[t].stopCalls
                  /\ position[task[t].ticker] = 0 => task'[t].pc = "sd_complete_bcast"
            /\ Resume(t, "protect_pos_bcast") =>
                  /\ position[task[t].ticker] # 0
                  /\ task'[t].stopCalls = task[t].stopCalls + 1
                  /\ task'[t].stop_request.time_in_force = "GTC"
                  /\ task'[t].stop_request.qty = Abs(position[task[t].ticker]) \div 2
            /\ task'[t].stopCalls # task[t].stopCalls => Resume(t, "protect_pos_bcast")
         ]_vars
    /\ [](\A t \in TaskIds :
             /\ task[t].stopCalls <= task[t].protects
             /\ task[t].stops <= task[t].stopCalls
             /\ (task[t].stop_request # NoOrder) <=> (task[t].stopCalls = 1))

\* a finished run whose protective step submitted one stop order for 10 shares
C20_Witness ==
    \E t \in TaskIds :
        /\ task[t].pc = "done" /\ task[t].protects = 1
        /\ task[t].stopCalls = 1 /\ task[t].stops = 1
        /\ task[t].stop_request.qty = 10

LongCall == Called /\ PricesGiven /\ dec.current_price > 0 /\ dec.position_qty > 0

\* (predicted - current) / current > 2 * threshold, for a positive current price
ChangeAboveTwiceThreshold ==
    (dec.predicted_price - dec.current_price) * 1000 >
        2 * dec.confidence_threshold * dec.current_price

\* C22: with a position held, a predicted change above twice the threshold returns
\* BUY with qty exactly 5, and a change from 0 up to twice the threshold does not
\* return BUY
C22_AddLotOnStrongRise ==
    LongCall =>
        /\ ChangeAboveTwiceThreshold =>
              (dec.state = "returned" /\ dec.result.action = "BUY" /\ dec.result.qty = 5)
        /\ (dec.predicted_price >= dec.current_price /\ ~ChangeAboveTwiceThreshold) =>
              (dec.state = "returned" /\ dec.result.action # "BUY")

\* a rise of 3.01 % against a threshold of 1.5 %, with 10 shares held
C22_Witness ==
    /\ dec.state = "returned" /\ dec.current_price = 10000
    /\ dec.predicted_price = 10301 /\ dec.confidence_threshold = 15
    /\ dec.position_qty = 20
    /\ dec.result.action = "BUY" /\ dec.result.qty = 5

\* the conditions of rules 1-4 on the arguments of the call, for a positive current
\* price: the change is d / current with d = predicted - current
MatchesRule ==
    LET d == dec.predicted_price - dec.current_price
        c == dec.current_price
        thr == dec.confidence_threshold
        q == dec.position_qty
    IN \/ d * 1000 > thr * c /\ q = 0
       \/ d * 2000 < -thr * c /\ q > 0
       \/ d < 0 /\ q > 0
       \/ d * 1000 > 2 * thr * c /\ q > 0

WithoutRule2(cur, pred, position_qty, thr) ==
    IF cur = None \/ pred = None THEN Decision("HOLD", 0, "Missing price data")
    ELSE IF PctGreater(cur, pred, thr, 1000) /\ position_qty = 0
        THEN Decision("BUY", 10, "increase, no current position")
    ELSE IF AnyFall(cur, pred) /\ position_qty > 0
        THEN Decision("SELL", Abs(IntQty(position_qty)),
                      "Any downward prediction, protecting position")
    ELSE IF PctGreater(cur, pred, 2 * thr, 1000) /\ position_qty > 0
        THEN Decision("BUY", 5, "Strong upward prediction, adding to position")
    ELSE Decision("HOLD", 0, "below threshold or position already optimal")

\* C24: on every input on which the condition of rule 2 holds the condition of
\* rule 3 holds too, and the engine without rule 2 returns the action and the
\* quantity the engine returns
C24_Rule2Subsumed ==
    dec.state = "returned" =>
        LET cur == dec.current_price
            pred == dec.predicted_price
            q == dec.position_qty
            thr == dec.confidence_threshold
            other == WithoutRule2(cur, pred, q, thr)
        IN /\ (PricesGiven /\ SellAggressively(cur, pred, thr) /\ q > 0) =>
                 AnyFall(cur, pred)
           /\ dec.result.action = other.action
           /\ dec.result.qty = other.qty

\* a call decided by rule 2: a fall of 5 % with 10 shares held
C24_Witness ==
    /\ dec.state = "returned" /\ dec.current_price = 10000
    /\ dec.predicted_price = 9500 /\ dec.position_qty = 20
    /\ dec.result = Decision("SELL", 10, "decrease, closing position")

\* the awaits of the market-closed wait
ClosedPcs == {"closed_bcast", "closed_sleep"}

\* C25: from the market-closed wait the loop goes only to the next step of the wait,
\* to the clock query of the next cycle or into the shutdown sequence, with no
\* position read, no decision and no order; with the shutdown flag set it goes into
\* the shutdown sequence; and a CancelledError thrown into the wait is followed by
\* the shutdown sequence
C25_ClosedMarketNoTrading ==
    [][\A t \in TaskIds : Steps(t) =>
         /\ task[t].pc \in ClosedPcs =>
               /\ position' = position
               /\ task'[t].position_qty = 0 /\ task'[t].decision = NoDecision
               /\ task'[t].cycleSubmits = 0
               /\ task'[t].pc \in {"closed_sleep", "status_bcast", "protect_bcast",
                                   "cancelled_bcast"}
               /\ (shutdown_requested /\ ~task[t].cancel) => task'[t].pc = "protect_bcast"
         /\ (task[t].pc = "cancelled_bcast" /\ task[t].caught \in ClosedPcs) =>
               task'[t].pc = "protect_bcast"
      ]_vars

\* C26: a cycle whose current price is None goes from the price read to the delay
\* with no decision made and nothing submitted, and from the delay to the while
\* test (the next cycle, or the shutdown sequence when the flag is set), never to
\* the error-recovery path; the decision engine is called only with a current
\* price that is not None
C26_NullPriceSkipsCycle ==
    /\ [][\A t \in TaskIds : Steps(t) =>
            /\ task'[t].pc = "noprice_sleep" =>
                  (Resume(t, "price_get") /\ position' = position)
            /\ Resume(t, "noprice_sleep") =>
                  /\ position' = position
                  /\ task'[t].pc = IF shutdown_requested THEN "protect_bcast"
                                                         ELSE "status_bcast"
                  /\ task'[t].decision = NoDecision /\ task'[t].cycleSubmits = 0
         ]_vars
    /\ [](\A t \in TaskIds :
             /\ task[t].pc = "noprice_sleep" =>
                   /\ task[t].current_price = None
                   /\ task[t].decision = NoDecision
                   /\ task[t].cycleSubmits = 0
             /\ task[t].pc = "decision_bcast" =>
                   (task[t].current_price # None /\ task[t].decision # NoDecision))

\* the delay of a cycle without a current price, with 10 shares held
C26_Witness ==
    \E t \in TaskIds :
        /\ task[t].pc = "noprice_sleep" /\ task[t].current_price = None
        /\ position[task[t].ticker] = 20 /\ task[t].ran

\* C27: the position read, whether it succeeds or fails, is followed by the price
\* request of the same cycle, never by the error-recovery path or the end of the
\* loop; it leaves position_qty at the position the broker holds or, when it
\* failed, at 0; and a decision made with position_qty 0 is the decision made for
\* no position: BUY 10 or HOLD
C27_PositionReadFailureNonFatal ==
    [][\A t \in TaskIds : Steps(t) =>
         /\ Resume(t, "open_bcast") =>
               /\ task'[t].pc = "price_get"
               /\ task'[t].position_qty \in {position[task[t].ticker], 0}
               /\ position' = position
         /\ (Resume(t, "price_get") /\ task[t].position_qty = 0
               /\ task'[t].pc = "decision_bcast") =>
               \/ task'[t].decision.action = "HOLD" /\ task'[t].decision.qty = 0
               \/ task'[t].decision.action = "BUY" /\ task'[t].decision.qty = 10
      ]_vars

\* the price request of a cycle whose position read failed while 10 shares are held
C27_Witness ==
    \E t \in TaskIds :
        /\ task[t].pc = "price_get" /\ task[t].position_qty = 0
        /\ position[task[t].ticker] = 20

\* C28: a call with a negative position quantity and both prices given returns HOLD
\* with qty 0
C28_HoldWhenShort ==
    (Called /\ PricesGiven /\ dec.position_qty < 0) =>
        (dec.state = "returned" /\ dec.result.action = "HOLD" /\ dec.result.qty = 0)

\* C29: the loop calls submit_order only from the step after the "EXECUTING" line,
\* and only with a BUY or SELL of quantity >= 1; a SELL decision of quantity 0 is
\* followed by the end of the cycle (or the break for shutdown) with no submission
\* and the position as it was
C29_NoOrderOfZeroQuantity ==
    /\ [][\A t \in TaskIds : Steps(t) =>
            /\ task'[t].cycleSubmits > task[t].cycleSubmits =>
                  /\ Resume(t, "exec_bcast")
                  /\ task[t].decision.action \in {"BUY", "SELL"}
                  /\ task[t].decision.qty >= 1
            /\ (Resume(t, "decision_bcast") /\ task[t].decision.action = "SELL"
                  /\ task[t].decision.qty = 0) =>
                  /\ task'[t].pc \in {"cycle_done_bcast", "brk_bcast"}
                  /\ task'[t].cycleSubmits = 0
                  /\ position' = position
         ]_vars
    /\ [](\A t \in TaskIds :
             /\ task[t].pc = "exec_bcast" => task[t].decision.qty >= 1
             /\ (task[t].decision.action \in {"SELL", "HOLD"} /\ task[t].decision.qty = 0) =>
                   task[t].cycleSubmits = 0)

\* the end of a cycle that decided to SELL 0 shares (half a share is held) and
\* submitted nothing
C29_Witness ==
    \E t \in TaskIds :
        /\ task[t].pc = "cycle_done_bcast"
        /\ task[t].decision.action = "SELL" /\ task[t].decision.qty = 0
        /\ task[t].cycleSubmits = 0 /\ position[task[t].ticker] = 1

\* C30: once set, the shutdown flag stays set whatever step is taken; and while it
\* is set no loop begins a cycle: a loop resumed from its first await goes into the
\* shutdown sequence, calling the protective step once, and a loop that has begun no
\* cycle submits no order and changes no position
C30_ShutdownFlagMonotonic ==
    [][shutdown_requested =>
         /\ shutdown_requested'
         /\ \A t \in TaskIds : Steps(t) =>
               /\ task'[t].pc # "status_bcast"
               /\ task'[t].ran => task[t].ran
               /\ Resume(t, "enter_bcast") =>
                     /\ task'[t].pc = "protect_bcast"
                     /\ task'[t].protects = 1
               /\ ~task[t].ran =>
                     (position' = position /\ task'[t].cycleSubmits = 0)
      ]_vars

\* a loop started by start_agent with the flag set has ended after the shutdown
\* sequence without having begun a cycle
C30_Witness ==
    \E t \in ApiTasks :
        /\ shutdown_requested /\ agent_running /\ agent_task = t
        /\ task[t].pc = "done" /\ ~task[t].ran /\ task[t].protects = 1

====
